---- MODULE Spec2Model ----
(***************************************************************************)
(* Model of the handler pipeline of qn-zyc/handlers.                       *)
(*                                                                         *)
(* The repository holds two variants of the Handlers type:                 *)
(*   variant "A"  src/handlers.go          Run() without an error return,  *)
(*                                         result handler, new(safeList)   *)
(*   variant "B"  src/unnamed/part_001     Run() error, ErrCheck, srcDone, *)
(*                                         newSafeList()                   *)
(* The variant is chosen in Init; every action is the code of both         *)
(* variants, split on `variant` where they differ.                         *)
(*                                                                         *)
(* Goroutines are the elements of Threads.  A step is one critical section *)
(* or one call on a Source or a Handler.  A Go panic ends the process: it  *)
(* is recorded in `panic` and no action is enabled afterwards.             *)
(*                                                                         *)
(* src/unnamed/part_000 holds the file sources.  MultiFileSrc is modelled  *)
(* by its own actions over its own variables; SpecMFS is the specification *)
(* of one MultiFileSrc over the files a glob pattern matched.              *)
(***************************************************************************)
EXTENDS Integers, Sequences, FiniteSets, TLC

\* ------------------------------------------------------------------ bounds
NThreads  == 2      \* goroutines calling into one pipeline
NSrc      == 2      \* distinct sources that may be registered
NHandlers == 2      \* distinct handlers that may be registered
MaxRuns   == 2      \* calls of Run over the life of the pipeline
MaxNext   == 3      \* calls of Next on one source
MaxFiles  == 3      \* files a glob pattern matches
MaxLines  == 1      \* newline-terminated lines in one file
MaxCalls  == 5      \* calls of MultiFileSrc.Next

Threads  == 1..NThreads
Sources  == 1..NSrc
HandlerS == 1..NHandlers

\* ------------------------------------------------------- program constants
StatusInit    == 0
StatusRunning == 1
StatusStop    == 2

\* error values: nil, io.EOF, a hard error of a source, a hard error of a
\* handler, and the error of a Run that finds the pipeline running
ErrNil     == "nil"
EOF        == "io.EOF"
SrcHard    == "source error"
HdlHard    == "handler error"
ErrRunning == "handlers already running"

NilData == 0          \* the nil interface{} value
NoSrc   == 0          \* the nil Source
NoPanic == "none"

\* ------------------------------------------------------------------- state
VARIABLES
    variant,        \* "A" | "B"
    todoSrc,        \* h.todoSrc   : safeList
    doneSrc,        \* h.doneSrc   : safeList
    handlers,       \* h.handlers  : safeList
    resultHandler,  \* h.resultHandler != nil
    state,          \* h.state
    ErrCheck,       \* h.ErrCheck  : "nil" | "default"
    readers,        \* goroutines holding h.handlers.RLock
    synced,         \* per list: goroutines whose reads are ordered after the
                    \*           list's allocation (see Sees)
    srcPos,         \* per source: calls of Next made so far
    acc,            \* per handler: accumulated state read by Result()
    pc,             \* per goroutine: position
    loc,            \* per goroutine: locals of the call in progress
    panic,          \* NoPanic, or the panic that ended the process
    regOrder,       \* history: sources in the order PushBack stored them
    popLog,         \* history: sources in the order popSrc returned them
    handledLog,     \* history: sources in the order their items met the chain
    ended,          \* history: first non-nil error each source's Next gave
    lateNext,       \* history: sources whose Next was called after that
    runLog,         \* history: one record per returned Run
    resultCalls,    \* history: mappings passed to resultHandler.Handle
    hdlErr,         \* history: some handler has returned a non-nil error
    hdlSince,       \* history: the chain position of the handler stored
                    \*          last, if its AddHandler waited for the write
                    \*          lock while a run invoked a handler on an item
                    \*          and no item has passed the whole chain since
                    \*          (else 0)
    srcUsed, hdlUsed, runsStarted,
    disk,           \* the files the pattern matches, in glob order
    mfsSrc,         \* mfs.src   : one *FileSource per file
    mfsIndex,       \* mfs.index
    mpc,            \* "unused" | "glob" | "ready" | "failed" | "closed"
    yielded,        \* history: what each MultiFileSrc.Next returned
    closeLog,       \* history: the last MultiFileSrc.Close
    readFailed      \* history: a read has failed with a hard error

vars == << variant, todoSrc, doneSrc, handlers, resultHandler, state, ErrCheck,
           readers, synced, srcPos, acc, pc, loc, panic, regOrder, popLog,
           handledLog, ended, lateNext, runLog, resultCalls, hdlErr, hdlSince, srcUsed,
           hdlUsed, runsStarted, disk, mfsSrc, mfsIndex, mpc, yielded, closeLog,
           readFailed >>

mfsVars == << disk, mfsSrc, mfsIndex, mpc, yielded, closeLog, readFailed >>

\* ---------------------------------------------------------------- safeList
\* ptr  : the *safeList field of Handlers is non-nil
\* init : the embedded *list.List is non-nil
NilSafeList == [ptr |-> FALSE, init |-> FALSE, elems |-> << >>]

\* new(safeList) leaves the embedded *list.List nil (variant A);
\* newSafeList() sets it to list.New() (variant B).
newSafeList(v) == [ptr |-> TRUE, init |-> (v = "B"), elems |-> << >>]

\* the double-checked allocation under h.Lock()
LazyInit(l, v) == IF l.ptr THEN l ELSE newSafeList(v)

PushBack(l, x) == [l EXCEPT !.elems = Append(@, x)]

\* `if h.todoSrc == nil` and `if h.handlers == nil` are read without a lock
\* while another goroutine may store the pointer under h.Lock(): a data race.
\* A goroutine that reads nil although the list is allocated goes on to
\* h.Lock() and tests again, or returns as if it had read before the
\* allocation, which some interleaving already gives.  A goroutine that
\* reads the new pointer without having synchronised with the allocation
\* may still read the zero value of the List field behind it.
\* synced.l holds the goroutines that have synchronised with the allocation
\* of list l: the one that allocated it, those that have taken h.Lock()
\* since, and every goroutine once a critical section of the list's own
\* lock has been completed.  h.doneSrc is touched by the one goroutine that
\* passed Run's guard only.
HLock(sy, t, todo, hdl) ==
    [todoSrc  |-> IF todo.ptr THEN sy.todoSrc \cup {t} ELSE sy.todoSrc,
     handlers |-> IF hdl.ptr THEN sy.handlers \cup {t} ELSE sy.handlers]

\* whether goroutine t finds the List field of list l set: the outcomes
Sees(l, sy, t) ==
    IF ~l.init THEN {FALSE} ELSE IF t \in sy THEN {TRUE} ELSE {TRUE, FALSE}

\* list l as a goroutine reads it
View(l, seen) == [l EXCEPT !.init = seen]


\* container/list on a nil *list.List dereferences nil: Front, PushBack panic.
\* (*List).Remove(nil) dereferences its nil argument.
PanicNilList   == "nil *list.List dereferenced"
PanicRemoveNil == "list.Remove(nil): nil *list.Element dereferenced"

\* h.todoSrc.Front(): the element popSrc takes
Front(l) == Head(l.elems)

\* popSrc: the source returned, the list left behind, or the panic raised
popSrc_Back(l) ==
    IF ~l.ptr THEN [panic |-> NoPanic, src |-> NoSrc, list |-> l]
    ELSE IF ~l.init THEN [panic |-> PanicNilList, src |-> NoSrc, list |-> l]
    ELSE IF l.elems = << >> THEN [panic |-> PanicRemoveNil, src |-> NoSrc, list |-> l]
    ELSE [panic |-> NoPanic, src |-> l.elems[Len(l.elems)],
          list |-> [l EXCEPT !.elems = SubSeq(@, 1, Len(@) - 1)]]

popSrc_Keep(l) ==
    IF ~l.ptr THEN [panic |-> NoPanic, src |-> NoSrc, list |-> l]
    ELSE IF ~l.init THEN [panic |-> PanicNilList, src |-> NoSrc, list |-> l]
    ELSE IF l.elems = << >> THEN [panic |-> PanicRemoveNil, src |-> NoSrc, list |-> l]
    ELSE [panic |-> NoPanic, src |-> Front(l), list |-> l]

popSrc(l) ==
    IF ~l.ptr THEN [panic |-> NoPanic, src |-> NoSrc, list |-> l]
    ELSE IF ~l.init THEN [panic |-> PanicNilList, src |-> NoSrc, list |-> l]
    ELSE IF l.elems = << >> THEN [panic |-> PanicRemoveNil, src |-> NoSrc, list |-> l]
    ELSE [panic |-> NoPanic, src |-> Front(l),
          list |-> [l EXCEPT !.elems = Tail(@)]]

\* ------------------------------------------------------------------ Source
\* The sources registered are scripted by their number:
\*   s % 3 = 1   one record, then a partial record together with end-of-stream
\*   s % 3 = 2   one record, then a hard error
\*   s % 3 = 0   one record, then end-of-stream
\* SrcNext(s, n) is what the (n+1)-th call of Next returns; a source that has
\* ended keeps returning its error with no data.
SrcNext(s, n) ==
    IF n = 0 THEN [d |-> 10 * s + 1, err |-> ErrNil]
    ELSE IF s % 3 = 2 THEN [d |-> NilData, err |-> SrcHard]
    ELSE IF s % 3 = 1 /\ n = 1 THEN [d |-> 10 * s + 2, err |-> EOF]
    ELSE [d |-> NilData, err |-> EOF]

\* ------------------------------------------------------------ file sources
\* A file is its number of newline-terminated lines and whether a partial
\* record without a newline follows them.  Record j of file i is << i, j >>;
\* the empty string is << >>; the nil interface{} is << 0 >>.
FileShapes == [lines : 0..MaxLines, tail : BOOLEAN]
Disks      == UNION {[1..n -> FileShapes] : n \in 0..MaxFiles}

EmptyStr == << >>
NilStr   == << 0 >>
ReadHard == "read error"

\* a slot of mfs.src: a nil *FileSource, or a FileSource with its file field
\* (non-nil or nil) and the number of records read
NilFileSrc     == [nil |-> TRUE, file |-> FALSE, pos |-> 0]
OpenFileSrc    == [nil |-> FALSE, file |-> TRUE, pos |-> 0]

\* FileSource.Next on file i of shape f: bufio's ReadString('\n') returns a
\* line with nil, or what is left of the file (possibly the empty string)
\* with io.EOF, or a hard error; on any error the file is closed.
FileSourceNext(i, f, fs, ioerr) ==
    LET r == IF ioerr THEN [d |-> EmptyStr, err |-> ReadHard]
             ELSE IF fs.pos < f.lines THEN [d |-> << i, fs.pos + 1 >>, err |-> ErrNil]
             ELSE IF f.tail THEN [d |-> << i, fs.pos + 1 >>, err |-> EOF]
             ELSE [d |-> EmptyStr, err |-> EOF]
    IN [d |-> r.d, err |-> r.err,
        fs |-> IF r.err = ErrNil THEN [fs EXCEPT !.pos = @ + 1]
               ELSE [fs EXCEPT !.file = FALSE]]

\* MultiFileSrc.Next; index counts from 0 as in the code
MultiFileSrcNext(src, index, dk, ioerr) ==
    IF index >= Len(src)
    THEN [d |-> NilStr, err |-> EOF, src |-> src, index |-> index]
    ELSE LET r    == FileSourceNext(index + 1, dk[index + 1], src[index + 1], ioerr)
             idx2 == IF r.err # ErrNil THEN index + 1 ELSE index
             err2 == IF r.err = EOF /\ idx2 < Len(src) THEN ErrNil ELSE r.err
         IN [d |-> r.d, err |-> err2,
             src |-> [src EXCEPT ![index + 1] = r.fs], index |-> idx2]

\* the text of the error a failed close of file i returns (os.PathError:
\* never the empty string)
CloseMsg(i) == << i >>

\* MultiFileSrc.Close.  fails is the set of files whose os-level Close
\* fails.  One pass of the loop body over slot i:
\*   called  the slots src.Close() was called on
\*   failed  the slots whose Close returned an error
\*   errBuf  the error texts written so far
NoClose == [called |-> << >>, failed |-> {}, errBuf |-> << >>, ret |-> "none"]

CloseStep_StopAtError(st, i, fails) ==
    IF st.errBuf # << >> \/ st.src[i].nil THEN st
    ELSE LET err == st.src[i].file /\ i \in fails
         IN [src    |-> [st.src EXCEPT ![i].file = FALSE],
             called |-> Append(st.called, i),
             failed |-> IF err THEN st.failed \cup {i} ELSE st.failed,
             errBuf |-> IF err THEN st.errBuf \o CloseMsg(i) ELSE st.errBuf]

CloseStep(st, i, fails) ==
    IF st.src[i].nil THEN st
    ELSE LET err == st.src[i].file /\ i \in fails
         IN [src    |-> [st.src EXCEPT ![i].file = FALSE],
             called |-> Append(st.called, i),
             failed |-> IF err THEN st.failed \cup {i} ELSE st.failed,
             errBuf |-> IF err THEN st.errBuf \o CloseMsg(i) ELSE st.errBuf]

RECURSIVE CloseFrom(_, _, _)
CloseFrom(st, i, fails) ==
    IF i > Len(st.src) THEN st
    ELSE CloseFrom(CloseStep(st, i, fails), i + 1, fails)

\* the slots after the call, and the record of the call; Close returns a
\* non-nil error when errBuf.Len() > 0
MultiFileSrcClose(src, fails) ==
    LET st == CloseFrom([src |-> src, called |-> << >>, failed |-> {},
                         errBuf |-> << >>], 1, fails)
    IN [src |-> st.src,
        log |-> [called |-> st.called, failed |-> st.failed,
                 errBuf |-> st.errBuf,
                 ret |-> IF Len(st.errBuf) > 0 THEN "error" ELSE ErrNil]]

\* ----------------------------------------------------------------- Handler
HandlerID(hd) == IF hd % 2 = 1 THEN "a" ELSE "b"

\* the data a handler returns for the next handler
Transform(hd, in) == in + 100 * hd

\* the errors a handler of variant B may return from Handle
HandlerErrs == {ErrNil, EOF, HdlHard}

\* what a run remembers of the hard errors its handlers returned (history):
\* after a call of Handle that returned e, and after a call of Next
HardAfterCall(h, e) == IF h # "no" THEN "passed" ELSE IF e = HdlHard THEN "last" ELSE "no"
HardAfterNext(h)    == IF h # "no" THEN "passed" ELSE "no"

\* the handler handleSrc invokes at step k of the chain (Front, then Next)
ChainElem_Reverse(l, k) == l.elems[Len(l.elems) + 1 - k]

ChainElem(l, k) == l.elems[k]

\* the value handleSrc passes to a handler: the loop variable d, which holds
\* the previous handler's output (item is what Next returned)
ChainInput_Item(item, d) == item

ChainInput(item, d) == d

\* defaultErrFunc: nil and io.EOF let the run go on
defaultErrFunc(err) == err = ErrNil \/ err = EOF

\* Run's guard on h.state
AlreadyRunning_Never(st) == FALSE

AlreadyRunning(st) == st = StatusRunning

\* results[handler.ID()] = handler.Result() over the chain, front to back
RECURSIVE CollectResults(_, _, _)
CollectResults(hs, a, m) ==
    IF hs = << >> THEN m
    ELSE LET id == HandlerID(Head(hs))
             m2 == [x \in DOMAIN m \cup {id} |->
                       IF x = id THEN a[Head(hs)] ELSE m[x]]
         IN CollectResults(Tail(hs), a, m2)

EmptyMap == [x \in {} |-> 0]

\* -------------------------------------------------------------------- Init
Loc0 == [arg |-> 0, src |-> NoSrc, d |-> NilData, err |-> ErrNil, k |-> 0,
         item |-> NilData, calls |-> << >>, nItems |-> 0, rerun |-> FALSE,
         popped |-> << >>, hard |-> "no"]

PipelineInit ==
    /\ todoSrc = NilSafeList
    /\ doneSrc = NilSafeList
    /\ handlers = NilSafeList
    /\ resultHandler = FALSE
    /\ state = StatusInit
    /\ ErrCheck = "nil"
    /\ readers = {}
    /\ synced = [todoSrc |-> {}, handlers |-> {}]
    /\ srcPos = [s \in Sources |-> 0]
    /\ acc = [hd \in HandlerS |-> 0]
    /\ pc = [t \in Threads |-> "idle"]
    /\ loc = [t \in Threads |-> Loc0]
    /\ panic = NoPanic
    /\ regOrder = << >>
    /\ popLog = << >>
    /\ handledLog = << >>
    /\ ended = [s \in Sources |-> ErrNil]
    /\ lateNext = {}
    /\ runLog = << >>
    /\ resultCalls = << >>
    /\ hdlErr = FALSE
    /\ hdlSince = 0
    /\ srcUsed = {}
    /\ hdlUsed = 0
    /\ runsStarted = 0

\* no MultiFileSrc has been created
MfsUnused ==
    /\ disk = << >>
    /\ mfsSrc = << >>
    /\ mfsIndex = 0
    /\ mpc = "unused"
    /\ yielded = << >>
    /\ closeLog = NoClose
    /\ readFailed = FALSE

Init ==
    /\ variant \in {"A", "B"}
    /\ PipelineInit
    /\ MfsUnused

hist    == << regOrder, popLog, handledLog, ended, lateNext, runLog, resultCalls,
             hdlErr, hdlSince >>
fields  == << todoSrc, doneSrc, handlers, resultHandler, state, ErrCheck >>
bounded == << srcUsed, hdlUsed, runsStarted >>

\* ------------------------------------------------------------------ AddSrc
\* if h.todoSrc == nil  (read without the lock)
\* The callers pass the sources in the order of their numbers; concurrent
\* calls may still store them in either order.
AddSrcCheck(t, s) ==
    /\ panic = NoPanic /\ pc[t] = "idle"
    /\ s \notin srcUsed /\ \A x \in Sources : x < s => x \in srcUsed
    /\ srcUsed' = srcUsed \cup {s}
    /\ loc' = [loc EXCEPT ![t] = [Loc0 EXCEPT !.arg = s]]
    /\ pc' = [pc EXCEPT ![t] = IF todoSrc.ptr THEN "as_push" ELSE "as_init"]
    /\ UNCHANGED << mfsVars, variant, synced, fields, readers, srcPos, acc, panic, hist,
                    hdlUsed, runsStarted >>

\* h.Lock(); if h.todoSrc == nil { h.todoSrc = new list }; h.Unlock()
AddSrcInit(t) ==
    /\ panic = NoPanic /\ pc[t] = "as_init"
    /\ todoSrc' = LazyInit(todoSrc, variant)
    /\ synced' = HLock(synced, t, todoSrc', handlers)
    /\ pc' = [pc EXCEPT ![t] = "as_push"]
    /\ UNCHANGED << mfsVars, variant, doneSrc, handlers, resultHandler, state, ErrCheck,
                    readers, srcPos, acc, loc, panic, hist, bounded >>

\* h.todoSrc.Lock(); h.todoSrc.PushBack(src); h.todoSrc.Unlock()
AddSrcPush(t) ==
    /\ panic = NoPanic /\ pc[t] = "as_push"
    /\ \E seen \in Sees(todoSrc, synced.todoSrc, t) :
       IF seen
       THEN /\ todoSrc' = PushBack(todoSrc, loc[t].arg)
            /\ synced' = [synced EXCEPT !.todoSrc = Threads]
            /\ regOrder' = Append(regOrder, loc[t].arg)
            /\ pc' = [pc EXCEPT ![t] = "idle"]
            /\ loc' = [loc EXCEPT ![t] = Loc0]
            /\ UNCHANGED panic
       ELSE /\ panic' = PanicNilList
            /\ UNCHANGED << todoSrc, synced, regOrder, pc, loc >>
    /\ UNCHANGED << mfsVars, variant, doneSrc, handlers, resultHandler, state, ErrCheck,
                    readers, srcPos, acc, popLog, handledLog, ended, lateNext,
                    runLog, resultCalls, hdlErr, hdlSince,
                    bounded >>

\* -------------------------------------------------------------- AddHandler
\* Handlers are named by their place in the chain: the handler a call
\* passes gets its number when PushBack stores it.  hdlUsed counts the calls.
AddHandlerCheck(t) ==
    /\ panic = NoPanic /\ pc[t] = "idle" /\ hdlUsed < NHandlers
    /\ hdlUsed' = hdlUsed + 1
    /\ loc' = [loc EXCEPT ![t] = Loc0]
    /\ pc' = [pc EXCEPT ![t] = IF handlers.ptr THEN "ah_push" ELSE "ah_init"]
    /\ UNCHANGED << mfsVars, variant, synced, fields, readers, srcPos, acc, panic, hist,
                    srcUsed, runsStarted >>

AddHandlerInit(t) ==
    /\ panic = NoPanic /\ pc[t] = "ah_init"
    /\ handlers' = LazyInit(handlers, variant)
    /\ synced' = HLock(synced, t, todoSrc, handlers')
    /\ pc' = [pc EXCEPT ![t] = "ah_push"]
    /\ UNCHANGED << mfsVars, variant, todoSrc, doneSrc, resultHandler, state, ErrCheck,
                    readers, srcPos, acc, loc, panic, hist, bounded >>

\* h.handlers.Lock() (sync.RWMutex) is granted when no goroutine holds the
\* read lock that handleSrc and Run's result step take
WLockFree_Always(rd) == TRUE

WLockFree(rd) == rd = {}

AddHandlerPush(t) ==
    /\ panic = NoPanic /\ pc[t] = "ah_push"
    /\ WLockFree(readers)
    /\ \E seen \in Sees(handlers, synced.handlers, t) :
       IF seen
       THEN /\ handlers' = PushBack(handlers, Len(handlers.elems) + 1)
            /\ synced' = [synced EXCEPT !.handlers = Threads]
            /\ hdlSince' = IF loc[t].arg = 1 THEN Len(handlers.elems) + 1 ELSE 0
            /\ pc' = [pc EXCEPT ![t] = "idle"]
            /\ loc' = [loc EXCEPT ![t] = Loc0]
            /\ UNCHANGED panic
       ELSE /\ panic' = PanicNilList
            /\ UNCHANGED << handlers, synced, hdlSince, pc, loc >>
    /\ UNCHANGED << mfsVars, variant, todoSrc, doneSrc, resultHandler, state, ErrCheck,
                    readers, srcPos, acc, regOrder, popLog, handledLog, ended,
                    lateNext, runLog, resultCalls, hdlErr, bounded >>

\* -------------------------------------------------------- SetResultHandler
\* variant A only
SetResultHandler(t) ==
    /\ panic = NoPanic /\ pc[t] = "idle"
    /\ variant = "A" /\ ~resultHandler
    /\ resultHandler' = TRUE
    /\ UNCHANGED << mfsVars, variant, synced, todoSrc, doneSrc, handlers, state, ErrCheck,
                    readers, srcPos, acc, pc, loc, panic, hist, bounded >>


\* --------------------------------------------------------------------- Run
\* the record a returning Run leaves in runLog
\*   rejected  the guard found StatusRunning
\*   active    (rejected runs) another Run was between its guard and its return
\*   rerun     an earlier Run had returned when this one was called
\*   rhSet     a result handler was set when the run returned
\*   results   the mappings this run passed to the result handler
\*   popped    the sources this run popped;  last: the one it handled last
\*   left      the pending queue when the run returned
\*   hard      of the source handled last: "no": no handler returned a hard
\*             error; "last": one did and the run did nothing with a
\*             handler or the source afterwards; "passed": it went on
Draining(t) == pc[t] \in {"run_pop", "hs_enter", "hs_next", "hs_chain", "sd_check",
                          "sd_init", "sd_push", "run_errcheck", "run_result"}

RunRecord(t, ret, results) ==
    [ret |-> ret, rejected |-> FALSE, active |-> FALSE, rerun |-> loc[t].rerun,
     rhSet |-> resultHandler, results |-> results, nItems |-> loc[t].nItems,
     popped |-> loc[t].popped, last |-> loc[t].src, left |-> todoSrc.elems,
     hard |-> loc[t].hard]

\* h.Lock(); if h.state == StatusRunning { return }; h.state = StatusRunning;
\* (B: if h.ErrCheck == nil { h.ErrCheck = h.defaultErrFunc }); h.Unlock()
RunGuard(t) ==
    /\ panic = NoPanic /\ pc[t] = "idle"
    /\ runsStarted < MaxRuns
    /\ runsStarted' = runsStarted + 1
    /\ synced' = HLock(synced, t, todoSrc, handlers)
    /\ IF AlreadyRunning(state)
       THEN /\ runLog' = Append(runLog,
                   [ret |-> IF variant = "B" THEN ErrRunning ELSE "void",
                    rejected |-> TRUE, active |-> (\E u \in Threads : Draining(u)),
                    rerun |-> (runLog # << >>), rhSet |-> resultHandler,
                    results |-> << >>, nItems |-> 0, popped |-> << >>,
                    last |-> NoSrc, left |-> << >>, hard |-> "no"])
            /\ UNCHANGED << state, ErrCheck, pc, loc >>
       ELSE /\ state' = StatusRunning
            /\ ErrCheck' = IF variant = "B" /\ ErrCheck = "nil"
                           THEN "default" ELSE ErrCheck
            /\ pc' = [pc EXCEPT ![t] = "run_pop"]
            /\ loc' = [loc EXCEPT ![t] = [Loc0 EXCEPT !.rerun = (runLog # << >>)]]
            /\ UNCHANGED runLog
    /\ UNCHANGED << mfsVars, variant, todoSrc, doneSrc, handlers, resultHandler, readers,
                    srcPos, acc, panic, regOrder, popLog, handledLog, ended,
                    lateNext, resultCalls, hdlErr, hdlSince, srcUsed, hdlUsed >>

\* src := h.popSrc(); if src == nil { break }
\* A: break leads to the result step; B: break leads to return nil
RunPop(t) ==
    /\ panic = NoPanic /\ pc[t] = "run_pop"
    /\ \E seen \in Sees(todoSrc, synced.todoSrc, t) :
       LET r == popSrc(View(todoSrc, seen)) IN
       IF r.panic # NoPanic
       THEN /\ panic' = r.panic
            /\ UNCHANGED << todoSrc, synced, popLog, pc, loc, runLog >>
       ELSE IF r.src = NoSrc
       THEN /\ IF variant = "A"
               THEN /\ pc' = [pc EXCEPT ![t] = "run_result"]
                    /\ UNCHANGED << loc, runLog >>
               ELSE /\ pc' = [pc EXCEPT ![t] = "idle"]
                    /\ runLog' = Append(runLog, RunRecord(t, ErrNil, << >>))
                    /\ loc' = [loc EXCEPT ![t] = Loc0]
            /\ UNCHANGED << todoSrc, synced, popLog, panic >>
       ELSE /\ todoSrc' = r.list
            /\ synced' = [synced EXCEPT !.todoSrc = Threads]
            /\ popLog' = Append(popLog, r.src)
            /\ loc' = [loc EXCEPT ![t].src = r.src,
                                  ![t].popped = Append(@, r.src)]
            /\ pc' = [pc EXCEPT ![t] = "hs_enter"]
            /\ UNCHANGED << panic, runLog >>
    /\ UNCHANGED << mfsVars, variant, doneSrc, handlers, resultHandler, state, ErrCheck,
                    readers, srcPos, acc, regOrder, handledLog, ended, lateNext,
                    resultCalls, hdlErr, hdlSince,
                    bounded >>

\* --------------------------------------------------------------- handleSrc
\* handleSrc's test  if h.handlers == nil { return }
NoChain_Never(l) == FALSE

NoChain(l) == ~l.ptr

\* if h.handlers == nil { return }; h.handlers.RLock(); defer RUnlock()
HandleSrcEnter(t) ==
    /\ panic = NoPanic /\ pc[t] = "hs_enter"
    /\ IF NoChain(handlers)
       THEN /\ pc' = [pc EXCEPT ![t] = IF variant = "A" THEN "run_pop" ELSE "sd_check"]
            /\ loc' = [loc EXCEPT ![t].err = ErrNil]
            /\ UNCHANGED readers
       ELSE /\ readers' = readers \cup {t}
            /\ pc' = [pc EXCEPT ![t] = "hs_next"]
            /\ UNCHANGED loc
    /\ UNCHANGED << mfsVars, variant, synced, fields, srcPos, acc, panic, hist, bounded >>

\* whether handleSrc passes what Next returned to the chain:
\* A: for d, err := src.Next(); err == nil; d, err = src.Next()
\* B: for d, err := src.Next(); ; d, err = src.Next()
LoopTest_ErrNil(v, err) == err = ErrNil

LoopTest(v, err) == v = "B" \/ err = ErrNil

\* d, err = src.Next()
\* A: the loop condition err == nil is tested before the chain;
\* B: the chain runs on whatever Next returned.
HandleSrcNext(t) ==
    /\ panic = NoPanic /\ pc[t] = "hs_next"
    /\ LET s == loc[t].src
           r == SrcNext(s, srcPos[s])
           go == LoopTest(variant, r.err)
       IN /\ srcPos[s] < MaxNext
          /\ srcPos' = [srcPos EXCEPT ![s] = @ + 1]
          /\ ended' = IF ended[s] = ErrNil THEN [ended EXCEPT ![s] = r.err] ELSE ended
          /\ lateNext' = IF ended[s] # ErrNil THEN lateNext \cup {s} ELSE lateNext
          /\ IF go
             THEN /\ loc' = [loc EXCEPT ![t].d = r.d, ![t].err = r.err,
                                        ![t].hard = HardAfterNext(@),
                                        ![t].item = r.d, ![t].k = 1,
                                        ![t].calls = << >>,
                                        ![t].nItems = @ + 1]
                  /\ handledLog' = IF handledLog # << >>
                                      /\ handledLog[Len(handledLog)] = s
                                   THEN handledLog ELSE Append(handledLog, s)
                  /\ pc' = [pc EXCEPT ![t] = "hs_chain"]
                  /\ UNCHANGED << readers, hdlSince >>
             ELSE /\ loc' = [loc EXCEPT ![t].d = NilData, ![t].err = r.err,
                                        ![t].item = NilData, ![t].k = 0,
                                        ![t].calls = << >>]
                  /\ readers' = readers \ {t}
                  /\ pc' = [pc EXCEPT ![t] = "run_pop"]
                  /\ hdlSince' = 0
                  /\ UNCHANGED handledLog
    /\ UNCHANGED << mfsVars, variant, synced, fields, acc, panic, regOrder, popLog, runLog,
                    resultCalls, hdlErr, bounded >>

\* history: the goroutines waiting in AddHandler for the write lock while a
\* handler is invoked on an item are marked (arg = 1)
Overlapped(l) ==
    [u \in Threads |-> IF pc[u] = "ah_push" THEN [l[u] EXCEPT !.arg = 1] ELSE l[u]]

\* for e := h.handlers.Front(); e != nil; e = e.Next() { d(, err) = Handle(d) }
\* and, past the last handler, B's  if err != nil { return err }
HandleSrcChain(t) ==
    /\ panic = NoPanic /\ pc[t] = "hs_chain"
    /\ \E seen \in Sees(handlers, synced.handlers, t) :
       IF ~seen
       THEN /\ panic' = PanicNilList
            /\ UNCHANGED << loc, pc, readers, synced, acc, hdlErr, hdlSince >>
       ELSE /\ synced' = [synced EXCEPT !.handlers = @ \cup {t}]
            /\ IF loc[t].k <= Len(handlers.elems)
                THEN \E e \in (IF variant = "B" THEN HandlerErrs ELSE {loc[t].err}) :
                        LET hd  == ChainElem(handlers, loc[t].k)
                            in  == ChainInput(loc[t].item, loc[t].d)
                            out == Transform(hd, in)
                        IN /\ loc' = Overlapped(
                                       [loc EXCEPT ![t].d = out, ![t].err = e,
                                                   ![t].k = @ + 1,
                                                   ![t].hard = HardAfterCall(@, e),
                                                   ![t].calls = Append(@,
                                                       [h |-> hd, in |-> in, out |-> out])])
                           /\ acc' = IF variant = "A" THEN [acc EXCEPT ![hd] = @ + 1] ELSE acc
                           /\ hdlErr' = (hdlErr \/ (variant = "B" /\ e # ErrNil))
                           /\ UNCHANGED << pc, readers, panic, hdlSince >>
                ELSE /\ IF variant = "B" /\ loc[t].err # ErrNil
                        THEN /\ readers' = readers \ {t}
                             /\ pc' = [pc EXCEPT ![t] = "sd_check"]
                             /\ loc' = [loc EXCEPT ![t].d = NilData, ![t].item = NilData,
                                                   ![t].k = 0, ![t].calls = << >>]
                        ELSE /\ pc' = [pc EXCEPT ![t] = "hs_next"]
                             /\ UNCHANGED << readers, loc >>
                     /\ hdlSince' = 0
                     /\ UNCHANGED << acc, panic, hdlErr >>
    /\ UNCHANGED << mfsVars, variant, fields, srcPos, regOrder, popLog, handledLog, ended,
                    lateNext, runLog, resultCalls, bounded >>

\* ----------------------------------------------------------------- srcDone
\* variant B: h.srcDone(src) after handleSrc returned
SrcDoneCheck(t) ==
    /\ panic = NoPanic /\ pc[t] = "sd_check"
    /\ pc' = [pc EXCEPT ![t] = IF doneSrc.ptr THEN "sd_push" ELSE "sd_init"]
    /\ UNCHANGED << mfsVars, variant, synced, fields, readers, srcPos, acc, loc, panic, hist,
                    bounded >>

SrcDoneInit(t) ==
    /\ panic = NoPanic /\ pc[t] = "sd_init"
    /\ doneSrc' = LazyInit(doneSrc, variant)
    /\ synced' = HLock(synced, t, todoSrc, handlers)
    /\ pc' = [pc EXCEPT ![t] = "sd_push"]
    /\ UNCHANGED << mfsVars, variant, todoSrc, handlers, resultHandler, state, ErrCheck,
                    readers, srcPos, acc, loc, panic, hist, bounded >>

SrcDonePush(t) ==
    /\ panic = NoPanic /\ pc[t] = "sd_push"
    /\ IF doneSrc.init
       THEN /\ doneSrc' = PushBack(doneSrc, loc[t].src)
            /\ pc' = [pc EXCEPT ![t] = "run_errcheck"]
            /\ UNCHANGED panic
       ELSE /\ panic' = PanicNilList
            /\ UNCHANGED << doneSrc, pc >>
    /\ UNCHANGED << mfsVars, variant, synced, todoSrc, handlers, resultHandler, state, ErrCheck,
                    readers, srcPos, acc, loc, hist, bounded >>

\* if err != nil && !h.ErrCheck(err) { return err }
RunCheckErr(t) ==
    /\ panic = NoPanic /\ pc[t] = "run_errcheck"
    /\ IF loc[t].err # ErrNil /\ ~defaultErrFunc(loc[t].err)
       THEN /\ runLog' = Append(runLog, RunRecord(t, loc[t].err, << >>))
            /\ pc' = [pc EXCEPT ![t] = "idle"]
            /\ loc' = [loc EXCEPT ![t] = Loc0]
       ELSE /\ pc' = [pc EXCEPT ![t] = "run_pop"]
            /\ loc' = [loc EXCEPT ![t].hard = "no"]
            /\ UNCHANGED runLog
    /\ UNCHANGED << mfsVars, variant, synced, fields, readers, srcPos, acc, panic, regOrder,
                    popLog, handledLog, ended, lateNext, resultCalls, hdlErr, hdlSince,
                    bounded >>

\* ------------------------------------------------------------- result step
\* variant A: if h.resultHandler != nil && h.handlers != nil { RLock;
\*   results[ID()] = Result() for every handler; resultHandler.Handle(results) }
RunResult(t) ==
    /\ panic = NoPanic /\ pc[t] = "run_result"
    /\ IF resultHandler /\ handlers.ptr
       THEN IF handlers.init
            THEN /\ resultCalls' = Append(resultCalls,
                        CollectResults(handlers.elems, acc, EmptyMap))
                 /\ runLog' = Append(runLog, RunRecord(t, "void",
                        << CollectResults(handlers.elems, acc, EmptyMap) >>))
                 /\ pc' = [pc EXCEPT ![t] = "idle"]
                 /\ loc' = [loc EXCEPT ![t] = Loc0]
                 /\ UNCHANGED << readers, panic >>
            ELSE /\ readers' = readers \cup {t}
                 /\ panic' = PanicNilList
                 /\ UNCHANGED << resultCalls, runLog, pc, loc >>
       ELSE /\ runLog' = Append(runLog, RunRecord(t, "void", << >>))
            /\ pc' = [pc EXCEPT ![t] = "idle"]
            /\ loc' = [loc EXCEPT ![t] = Loc0]
            /\ UNCHANGED << resultCalls, readers, panic >>
    /\ UNCHANGED << mfsVars, variant, synced, fields, srcPos, acc, regOrder, popLog, handledLog,
                    ended, lateNext, hdlErr, hdlSince,
                    bounded >>

\* -------------------------------------------------------------------- Next
Next ==
    \/ \E t \in Threads, s \in Sources : AddSrcCheck(t, s)
    \/ \E t \in Threads : AddSrcInit(t)
    \/ \E t \in Threads : AddSrcPush(t)
    \/ \E t \in Threads : AddHandlerCheck(t)
    \/ \E t \in Threads : AddHandlerInit(t)
    \/ \E t \in Threads : AddHandlerPush(t)
    \/ \E t \in Threads : SetResultHandler(t)
    \/ \E t \in Threads : RunGuard(t)
    \/ \E t \in Threads : RunPop(t)
    \/ \E t \in Threads : HandleSrcEnter(t)
    \/ \E t \in Threads : HandleSrcNext(t)
    \/ \E t \in Threads : HandleSrcChain(t)
    \/ \E t \in Threads : SrcDoneCheck(t)
    \/ \E t \in Threads : SrcDoneInit(t)
    \/ \E t \in Threads : SrcDonePush(t)
    \/ \E t \in Threads : RunCheckErr(t)
    \/ \E t \in Threads : RunResult(t)

Spec == Init /\ [][Next]_vars

\* ------------------------------------------------------------ MultiFileSrc
pipeVars == << variant, fields, readers, synced, srcPos, acc, pc, loc, panic, hist,
               bounded >>

\* NewMultiFileSrc: open the matched files in order; openFail is the first
\* file whose open fails (0: none).  On a failure the slots from openFail on
\* are nil, mfs.Close() is called and its error dropped, and no
\* MultiFileSrc is returned.
NewMultiFileSrc ==
    /\ mpc = "glob"
    /\ \E openFail \in 0..Len(disk), fails \in SUBSET (1..Len(disk)) :
          LET opened == [i \in 1..Len(disk) |->
                            IF openFail = 0 \/ i < openFail
                            THEN OpenFileSrc ELSE NilFileSrc]
          IN IF openFail = 0
             THEN /\ fails = {}
                  /\ mfsSrc' = opened
                  /\ mpc' = "ready"
                  /\ UNCHANGED closeLog
             ELSE LET c == MultiFileSrcClose(opened, fails)
                  IN /\ fails \subseteq 1..(openFail - 1)
                     /\ mfsSrc' = c.src
                     /\ closeLog' = c.log
                     /\ mpc' = "failed"
    /\ UNCHANGED << pipeVars, disk, mfsIndex, yielded, readFailed >>

\* one call of mfs.Next(); ioerr: the read fails with a hard error
MfsNext ==
    /\ mpc = "ready" /\ Len(yielded) < MaxCalls
    /\ \E ioerr \in BOOLEAN :
          LET r == MultiFileSrcNext(mfsSrc, mfsIndex, disk, ioerr)
          IN /\ ioerr => mfsIndex < Len(mfsSrc)
             /\ mfsSrc' = r.src
             /\ mfsIndex' = r.index
             /\ yielded' = Append(yielded, [d |-> r.d, err |-> r.err])
             /\ readFailed' = (readFailed \/ ioerr)
    /\ UNCHANGED << pipeVars, disk, mpc, closeLog >>

\* mfs.Close() called by the owner of the source, after its last Next
MfsClose ==
    /\ mpc = "ready"
    /\ \E fails \in SUBSET {i \in 1..Len(mfsSrc) : mfsSrc[i].file} :
          LET c == MultiFileSrcClose(mfsSrc, fails)
          IN /\ mfsSrc' = c.src
             /\ closeLog' = c.log
    /\ mpc' = "closed"
    /\ UNCHANGED << pipeVars, disk, mfsIndex, yielded, readFailed >>

InitMFS ==
    /\ variant = "B"
    /\ PipelineInit
    /\ disk \in Disks
    /\ mfsSrc = << >>
    /\ mfsIndex = 0
    /\ mpc = "glob"
    /\ yielded = << >>
    /\ closeLog = NoClose
    /\ readFailed = FALSE

NextMFS ==
    \/ NewMultiFileSrc
    \/ MfsNext
    \/ MfsClose

SpecMFS == InitMFS /\ [][NextMFS]_vars

\* ================================================================== claims
Range(q) == {q[i] : i \in DOMAIN q}

\* the place of source s in the order of registration
RegPos(s) == CHOOSE i \in DOMAIN regOrder : regOrder[i] = s

\* the runs that passed the guard and have returned
Returned == {i \in DOMAIN runLog : ~runLog[i].rejected}

\* C1: sources are popped in the order AddSrc stored them and none is passed
\* over (the sources popped so far, followed by the pending queue, are the
\* registration order); the sources whose items reached the handler chain did
\* so in registration order, never returning to an earlier source; and one
\* source is handled at a time: while a run handles a source it is the source
\* popped last, and in variant B every source popped before it is already in
\* the done queue.
C1_FifoOrder ==
    /\ popLog \o todoSrc.elems = regOrder
    /\ \A i \in DOMAIN handledLog :
          /\ handledLog[i] \in Range(regOrder)
          /\ \A j \in DOMAIN handledLog :
                i < j => RegPos(handledLog[i]) < RegPos(handledLog[j])
    /\ \A t \in Threads :
          pc[t] \in {"hs_enter", "hs_next", "hs_chain"} =>
             /\ popLog # << >>
             /\ loc[t].src = popLog[Len(popLog)]
             /\ variant = "B" =>
                   doneSrc.elems = SubSeq(popLog, 1, Len(popLog) - 1)

\* two sources were registered and items of both have passed through the chain
C1_Witness ==
    /\ Len(regOrder) >= 2
    /\ Len(handledLog) >= 2
    /\ \E t \in Threads : pc[t] = "hs_chain" /\ loc[t].calls # << >>

\* C2: for the item a run is passing through the chain, the k-th invocation
\* is of the k-th registered handler, the first handler receives what the
\* source's Next returned, and handler k+1 receives what handler k returned.
C2_ChainFold ==
    \A t \in Threads :
       LET c == loc[t].calls
           s == loc[t].src
       IN \A k \in DOMAIN c :
             /\ c[k].h = handlers.elems[k]
             /\ c[k].in = IF k = 1 THEN SrcNext(s, srcPos[s] - 1).d
                          ELSE c[k - 1].out

\* a record of a source has passed through a chain of two handlers
C2_Witness ==
    \E t \in Threads :
       /\ Len(loc[t].calls) >= 2
       /\ loc[t].item # NilData
       /\ loc[t].calls[2].in = Transform(1, loc[t].item)

\* C3: at most one Run is between its guard and its return, so at most one
\* goroutine is inside a handler's Handle; and a Run that finds StatusRunning
\* returns in the same step (variant A: nothing, variant B: "handlers already
\* running") without popping a source, reading a source or invoking a handler.
RejectedRunIsNoop ==
    (runsStarted' # runsStarted /\ state = StatusRunning) =>
        /\ pc' = pc
        /\ runLog' = Append(runLog, runLog'[Len(runLog')])
        /\ runLog'[Len(runLog')].rejected
        /\ runLog'[Len(runLog')].ret = IF variant = "B" THEN ErrRunning ELSE "void"
        /\ UNCHANGED << todoSrc, doneSrc, handlers, popLog, handledLog, srcPos,
                        acc, readers, state >>

C3_SingleRun ==
    /\ [](Cardinality({t \in Threads : Draining(t)}) <= 1)
    /\ [][RejectedRunIsNoop]_vars

\* a second Run was turned away while the first is inside the handler chain
C3_Witness ==
    /\ \E t \in Threads : pc[t] = "hs_chain" /\ loc[t].calls # << >>
    /\ \E i \in DOMAIN runLog : runLog[i].rejected /\ runLog[i].active

\* C4: when every registered source has been popped, no AddSrc is in
\* progress and no handler has returned an error, the Run that finds the
\* pending queue empty does not fail in popSrc.
C4_ReturnsOnEmptyQueue ==
    ( /\ ~hdlErr
      /\ regOrder # << >> /\ popLog = regOrder
      /\ \A t \in Threads : pc[t] \notin {"as_init", "as_push"} )
    => ~(\E t \in Threads : pc[t] = "run_pop" /\ panic # NoPanic)

\* C5: once a Run that passed the guard has returned and no Run is active,
\* the pipeline is not in StatusRunning.
C5_NotRunningAfterReturn ==
    (Returned # {} /\ \A t \in Threads : ~Draining(t)) => state # StatusRunning

\* C6: a Run called after an earlier Run has returned, with no Run active and
\* a result handler set, passes no item to the handlers and invokes the
\* result handler.
C6_RerunInvokesResultHandler ==
    \A i \in DOMAIN runLog :
       (runLog[i].rerun /\ ~runLog[i].active /\ runLog[i].rhSet) =>
          /\ runLog[i].nItems = 0
          /\ runLog[i].results # << >>

\* C7: a run that returns with a result handler set has passed it one mapping
\* whose keys are exactly the IDs of the registered handlers, each with the
\* Result() of the last handler registered under that ID.
C7_ResultMapping ==
    \A i \in Returned :
       runLog[i].rhSet =>
          /\ Len(runLog[i].results) = 1
          /\ DOMAIN runLog[i].results[1] = {HandlerID(hd) : hd \in Range(handlers.elems)}
          /\ \A hd \in Range(handlers.elems) :
                (\A h2 \in Range(handlers.elems) :
                    HandlerID(h2) = HandlerID(hd) => h2 <= hd)
                => runLog[i].results[1][HandlerID(hd)] = acc[hd]

\* C8: the result handler has been invoked once for every run that drained
\* the queue with a result handler set, whatever the number of handlers, and
\* never while a run is still handling a source.
C8_ResultHandlerOncePerRun ==
    /\ Len(resultCalls) = Cardinality({i \in Returned : runLog[i].rhSet})
    /\ \A i \in Returned : Len(runLog[i].results) <= 1

\* C9: a run does not read a source again after its Next has signalled
\* end-of-stream: it goes on to the next pending source.
C9_EofGoesOn ==
    \A t \in Threads : pc[t] = "hs_next" => ended[loc[t].src] # EOF

\* C10: once a source's Next has returned a hard error, the run reads that
\* source no more and pops no further source, and the Run that handled it
\* returns that error with every later source still pending.
C10_HardErrorAborts ==
    \A s \in Sources :
       ended[s] = SrcHard =>
          /\ s \notin lateNext
          /\ popLog[Len(popLog)] = s
          /\ \A t \in Threads : loc[t].src = s => pc[t] # "hs_next"
          /\ \A i \in Returned :
                runLog[i].last = s =>
                   /\ runLog[i].ret = SrcHard
                   /\ \A x \in Range(regOrder) :
                         RegPos(x) > RegPos(s) => x \in Range(runLog[i].left)

\* C11: in the error-returning variant, once a handler of the chain has
\* returned a hard error for an item, no later handler is invoked on that
\* item and the run reads no further item, and the Run returns the
\* handler's error.
C11_HandlerErrorAborts ==
    variant = "B" =>
       /\ \A t \in Threads : loc[t].hard # "passed"
       /\ \A i \in Returned :
             runLog[i].hard # "no" =>
                runLog[i].hard = "last" /\ runLog[i].ret = HdlHard

\* C12: while a run is draining a source the chain does not change: the
\* push of a handler whose AddHandler was called meanwhile waits for
\* handleSrc to return, so the handler is invoked on no item of that source;
\* and every item read from a source popped later has passed through every
\* handler of the chain, the new one included, in chain order.
C12_NoPushWhileDraining ==
    (\E t \in Threads : pc[t] \in {"hs_next", "hs_chain"}) => handlers' = handlers

C12_WholeChain ==
    \A t \in Threads :
       pc[t] \in {"hs_next", "hs_chain"} =>
          /\ \A k \in DOMAIN loc[t].calls : loc[t].calls[k].h = k
          /\ Len(loc[t].calls) <= Len(handlers.elems)
          /\ (pc[t] = "hs_next" /\ srcPos[loc[t].src] > 0) =>
                Len(loc[t].calls) = Len(handlers.elems)

C12_LateHandler ==
    /\ [][C12_NoPushWhileDraining]_vars
    /\ []C12_WholeChain

\* a handler whose AddHandler was called during the drain of one source has
\* been invoked on an item of a source popped later
C12_Witness ==
    \E t \in Threads :
       /\ hdlSince > 1
       /\ pc[t] = "hs_chain"
       /\ Len(popLog) >= 2
       /\ Len(loc[t].calls) >= hdlSince
       /\ loc[t].calls[hdlSince].h = hdlSince

\* a sequence without repeated elements
NoDup(q) == \A i, j \in DOMAIN q : q[i] = q[j] => i = j

\* the sources a run has popped and not yet passed to srcDone
InHand == {loc[t].src : t \in {u \in Threads :
              pc[u] \in {"hs_enter", "hs_next", "hs_chain", "sd_check",
                         "sd_init", "sd_push"}}}

RECURSIVE AllRecords(_, _)
AllRecords(dk, i) ==
    IF i > Len(dk) THEN << >>
    ELSE [j \in 1..(dk[i].lines + IF dk[i].tail THEN 1 ELSE 0) |-> << i, j >>]
         \o AllRecords(dk, i + 1)

\* the records among the first n results of MultiFileSrc.Next: the data
\* returned with a nil error, and data returned together with end-of-stream
RecordsOf(n) ==
    LET isRec(e) == e.err = ErrNil \/ (e.err = EOF /\ e.d \notin {EmptyStr, NilStr})
        picked   == SelectSeq(SubSeq(yielded, 1, n), isRec)
    IN [k \in DOMAIN picked |-> picked[k].d]

\* C14: as long as no read fails, the records MultiFileSrc.Next has yielded
\* are the records of the underlying files in order, none added and none
\* left out, and end-of-stream is reported only by a call that has yielded
\* all of them.
C14_ExactRecords ==
    ~readFailed =>
       LET all == AllRecords(disk, 1)
           got == RecordsOf(Len(yielded))
       IN /\ Len(got) <= Len(all)
          /\ got = SubSeq(all, 1, Len(got))
          /\ \A n \in DOMAIN yielded :
                yielded[n].err = EOF => RecordsOf(n) = all

\* C15: after MultiFileSrc.Close, called by the owner or by a failed
\* NewMultiFileSrc, Close has been called once on every non-nil slot, in
\* order, whatever the earlier ones returned; no file is left open; and the
\* error returned is non-nil exactly when some underlying Close failed.
C15_CloseAll ==
    mpc \in {"closed", "failed"} =>
       /\ closeLog.called =
             SelectSeq([i \in 1..Len(mfsSrc) |-> i], LAMBDA i : ~mfsSrc[i].nil)
       /\ \A i \in 1..Len(mfsSrc) : ~mfsSrc[i].file
       /\ (closeLog.ret # ErrNil) <=> (closeLog.failed # {})

\* NewMultiFileSrc failed on a later file, the Close of an earlier file
\* failed, and the file after that one was closed all the same
C15_Witness ==
    /\ mpc = "failed"
    /\ \E i \in 1..Len(mfsSrc) : mfsSrc[i].nil
    /\ \E i \in closeLog.failed, k \in DOMAIN closeLog.called :
          closeLog.called[k] > i
    /\ closeLog.ret # ErrNil

\* C16: Next is never called on a source whose Next has already returned
\* end-of-stream or another non-nil error.
C16_NoNextAfterEnd ==
    \A s \in Sources : ended[s] # ErrNil => s \notin lateNext

C18_RunSurvivesAddSrc ==
    /\ (\E u \in Threads : pc[u] \in {"as_init", "as_push"}) =>
          ~(\E t \in Threads : pc[t] = "run_pop" /\ panic = PanicRemoveNil)
    /\ NoDup(popLog \o todoSrc.elems)
    /\ Range(popLog \o todoSrc.elems) = Range(regOrder)

\* C19: the first AddSrc, AddHandler and srcDone on a fresh pipeline
\* allocate their list and append to it without failing, also when several
\* first calls race: no append finds the list it is to append to without
\* its container/list, every source stored is pending or popped, and every
\* AddHandler that has returned has its handler in the chain.
C19_FirstTouchAppends ==
    /\ ~(\E t \in Threads : /\ pc[t] \in {"as_push", "ah_push", "sd_push"}
                             /\ panic = PanicNilList)
    /\ Range(regOrder) = Range(popLog) \cup Range(todoSrc.elems)
    /\ Len(handlers.elems) + Cardinality({t \in Threads : pc[t] \in {"ah_init", "ah_push"}})
          = hdlUsed

====
